---- MODULE Spec2Model ----
(***************************************************************************)
(* Model of src/src/datasource.ts: the DataSource class of the Grafana     *)
(* MongoDB plugin.  Text is a sequence of one-character strings, so that   *)
(* the regular expression of replaceCustomFunctions is matched character   *)
(* by character.  A Date is [sec, ms] with valueOf() = sec * 1000 + ms and *)
(* 0 <= ms < 1000: the epoch milliseconds of present-day instants exceed   *)
(* the 32-bit integers of TLC, the epoch seconds do not.                   *)
(***************************************************************************)
EXTENDS Integers, Sequences, FiniteSets, TLC

VARIABLES
    heap,           \* reference -> object (the queries and the requests)
    call,           \* the call in progress or finished: op, arguments, outcome
    executorCalls,  \* references of the requests handed to super.query
    stream,         \* the executor's Observable: emitted responses and status
    received,       \* what the subscriber of query()'s return value observed
    promise         \* the promise metricFindQuery returned

vars == <<heap, call, executorCalls, stream, received, promise>>

----------------------------------------------------------------------------
(* Bounds of the model. *)

MaxTargets == 2
MaxEmissions == 2

----------------------------------------------------------------------------
(* Characters and text. *)

undefined == <<"undefined">>   \* the JavaScript undefined; no text has a
                               \* many-character element, so it equals none
EmptyText == <<>>

Digits == <<"0","1","2","3","4","5","6","7","8","9","a","b","c","d","e","f">>

IsWhitespace(c) == c \in {" ", "\t", "\n"}

IsLatinLetter(c) ==
    c \in {"a","b","c","d","e","f","g","h","i","j","k","l","m","n","o","p","q",
           "r","s","t","u","v","w","x","y","z",
           "A","B","C","D","E","F","G","H","I","J","K","L","M","N","O","P","Q",
           "R","S","T","U","V","W","X","Y","Z"}

\* s.startsWith(lit, i) with 1-based i
HasAt(s, i, lit) ==
    /\ i + Len(lit) - 1 <= Len(s)
    /\ \A k \in 1..Len(lit) : s[i + k - 1] = lit[k]

Truthy(field) == field # undefined /\ field # EmptyText

----------------------------------------------------------------------------
(* Number.prototype.toString(radix) for integers, radix 10 and 16. *)

RECURSIVE NatToString(_, _)
NatToString(n, radix) ==
    IF n < radix THEN <<Digits[n + 1]>>
    ELSE NatToString(n \div radix, radix) \o <<Digits[(n % radix) + 1]>>

NumberToString(n, radix) ==
    IF n < 0 THEN <<"-">> \o NatToString(-n, radix) ELSE NatToString(n, radix)

RECURSIVE PadStart(_, _)
PadStart(s, width) == IF Len(s) >= width THEN s ELSE PadStart(<<"0">> \o s, width)

----------------------------------------------------------------------------
(* Date. *)

\* Math.floor(time.valueOf() / 1000)
EpochSeconds(time) == time.sec + (time.ms \div 1000)

\* time.valueOf().toString(): the decimal digits of sec * 1000 + ms
MillisToString(time) ==
    IF time.sec >= 0
    THEN IF time.sec = 0 THEN NumberToString(time.ms, 10)
         ELSE NumberToString(time.sec, 10) \o PadStart(NumberToString(time.ms, 10), 3)
    ELSE IF time.ms = 0
         THEN NumberToString(time.sec, 10) \o <<"0","0","0">>
         ELSE \* sec*1000 + ms = -((-sec - 1)*1000 + (1000 - ms))
              IF time.sec = -1 THEN <<"-">> \o NumberToString(1000 - time.ms, 10)
              ELSE <<"-">> \o NumberToString(-time.sec - 1, 10)
                          \o PadStart(NumberToString(1000 - time.ms, 10), 3)

\* The UTC calendar fields of a Date (days since the epoch to a civil date).
DateFields(time) ==
    LET days == time.sec \div 86400
        sod  == time.sec % 86400
        z    == days + 719468
        era  == z \div 146097
        doe  == z - era * 146097
        yoe  == (doe - doe \div 1460 + doe \div 36524 - doe \div 146096) \div 365
        doy  == doe - (365 * yoe + yoe \div 4 - yoe \div 100)
        mp   == (5 * doy + 2) \div 153
        d    == doy - (153 * mp + 2) \div 5 + 1
        m    == IF mp < 10 THEN mp + 3 ELSE mp - 9
        y    == yoe + era * 400 + (IF m <= 2 THEN 1 ELSE 0)
    IN  [year |-> y, month |-> m, day |-> d,
         hour |-> sod \div 3600, minute |-> (sod % 3600) \div 60,
         second |-> sod % 60, ms |-> time.ms]

Pad(n, width) == PadStart(NumberToString(n, 10), width)

\* Date.prototype.toISOString() for years 0..9999
toISOString(time) ==
    LET f == DateFields(time)
    IN  Pad(f.year, 4) \o <<"-">> \o Pad(f.month, 2) \o <<"-">> \o Pad(f.day, 2)
        \o <<"T">> \o Pad(f.hour, 2) \o <<":">> \o Pad(f.minute, 2) \o <<":">>
        \o Pad(f.second, 2) \o <<".">> \o Pad(f.ms, 3) \o <<"Z">>

----------------------------------------------------------------------------
(* Outcomes of a call: a returned value or a thrown exception. *)

Return(v) == [kind |-> "return", value |-> v]
Throw(e)  == [kind |-> "throw", value |-> e]

RangeError == <<"RangeError">>
TypeError  == <<"TypeError">>

\* the text a followed by the text b, when both are produced: the first
\* exception thrown, left to right, ends the evaluation
ConcatOutcome(a, b) ==
    IF a.kind = "throw" THEN a
    ELSE IF b.kind = "throw" THEN b
    ELSE Return(a.value \o b.value)

----------------------------------------------------------------------------
(* format(date, pattern) of date-fns, called with no options: the process  *)
(* time zone is taken to be UTC.  A run of one letter is a token; the      *)
(* tokens y, M, d, H, m, s are rendered, any other unescaped Latin letter  *)
(* makes format throw a RangeError, other characters are copied.           *)

RECURSIVE RunLength(_, _, _)
RunLength(s, i, c) ==
    IF i <= Len(s) /\ s[i] = c THEN 1 + RunLength(s, i + 1, c) ELSE 0

FormatToken(f, c, n) ==
    CASE c = "y" -> IF n = 2 THEN Pad(f.year % 100, 2) ELSE Pad(f.year, n)
      [] c = "M" -> Pad(f.month, n)
      [] c = "d" -> Pad(f.day, n)
      [] c = "H" -> Pad(f.hour, n)
      [] c = "m" -> Pad(f.minute, n)
      [] c = "s" -> Pad(f.second, n)

IsFormatToken(c, n) ==
    \/ c = "y"
    \/ c \in {"M", "d", "H", "m", "s"} /\ n <= 2

RECURSIVE FormatFrom(_, _, _)
FormatRun(f, p, i, n) ==
    IF IsFormatToken(p[i], n)
    THEN ConcatOutcome(Return(FormatToken(f, p[i], n)), FormatFrom(f, p, i + n))
    ELSE Throw(RangeError)

FormatFrom(f, p, i) ==
    IF i > Len(p) THEN Return(EmptyText)
    ELSE IF IsLatinLetter(p[i]) THEN FormatRun(f, p, i, RunLength(p, i, p[i]))
    ELSE ConcatOutcome(Return(<<p[i]>>), FormatFrom(f, p, i + 1))

format(time, pattern) == FormatFrom(DateFields(time), pattern, 1)

----------------------------------------------------------------------------
(* timeToObjectId *)

Zeros16 == <<"0","0","0","0","0","0","0","0","0","0","0","0","0","0","0","0">>

timeToObjectId(time) == NumberToString(EpochSeconds(time), 16) \o Zeros16

----------------------------------------------------------------------------
(* replaceCustomFunctions: the regular expression                          *)
(*   /\{\{\s*__(time_from|time_to):date(?::([^\s\}]+))?\s*\}\}/g           *)
(* and String.prototype.replace with a callback.                           *)

Open      == <<"{","{">>
Close     == <<"}","}">>
Marker    == <<"_","_">>
TimeFrom  == <<"t","i","m","e","_","f","r","o","m">>
TimeTo    == <<"t","i","m","e","_","t","o">>
DateSfx   == <<":","d","a","t","e">>
Iso       == <<"i","s","o">>
ToObjectId == <<"t","o","O","b","j","e","c","t","I","d">>
Seconds   == <<"s","e","c","o","n","d","s">>
Milliseconds == <<"m","i","l","l","i","s","e","c","o","n","d","s">>

NoMatch == [matched |-> FALSE, end |-> 0, p1 |-> undefined, p2 |-> undefined]

\* \s* from position i: the position after the whitespace
RECURSIVE SkipWhitespace(_, _)
SkipWhitespace(s, i) ==
    IF i <= Len(s) /\ IsWhitespace(s[i]) THEN SkipWhitespace(s, i + 1) ELSE i

\* [^\s\}]+ from position i, greedy: the number of characters it takes
RECURSIVE SpecifierRun(_, _)
SpecifierRun(s, i) ==
    IF i <= Len(s) /\ ~IsWhitespace(s[i]) /\ s[i] # "}"
    THEN 1 + SpecifierRun(s, i + 1) ELSE 0

\* \s*\}\} from position i: the position after the match, or 0
MatchTail(s, i) ==
    LET w == SkipWhitespace(s, i)
    IN  IF HasAt(s, w, Close) THEN w + 2 ELSE 0

\* (?::([^\s\}]+))?\s*\}\} from position k, after ":date".  The group is
\* tried first; a shorter run cannot make the tail match (the next character
\* is neither whitespace nor a brace), so the only other try is no group.
MatchSpecifier(s, k, p1) ==
    LET r == IF HasAt(s, k, <<":">>) THEN SpecifierRun(s, k + 1) ELSE 0
        withGroup == IF r > 0 THEN MatchTail(s, k + 1 + r) ELSE 0
        without   == MatchTail(s, k)
    IN  IF withGroup > 0
        THEN [matched |-> TRUE, end |-> withGroup, p1 |-> p1,
              p2 |-> SubSeq(s, k + 1, k + r)]
        ELSE IF without > 0
        THEN [matched |-> TRUE, end |-> without, p1 |-> p1, p2 |-> undefined]
        ELSE NoMatch

\* the regular expression anchored at position i
MatchAt(s, i) ==
    IF ~HasAt(s, i, Open) THEN NoMatch
    ELSE LET j == SkipWhitespace(s, i + 2)
         IN  IF ~HasAt(s, j, Marker) THEN NoMatch
             ELSE IF HasAt(s, j + 2, TimeFrom \o DateSfx)
             THEN MatchSpecifier(s, j + 2 + Len(TimeFrom) + Len(DateSfx), TimeFrom)
             ELSE IF HasAt(s, j + 2, TimeTo \o DateSfx)
             THEN MatchSpecifier(s, j + 2 + Len(TimeTo) + Len(DateSfx), TimeTo)
             ELSE NoMatch

\* the callback of replace: (match, p1, p2) => ...
RenderValue(timeValue, p2) ==
    IF p2 = undefined \/ p2 = Iso THEN Return(toISOString(timeValue))
    ELSE CASE p2 = ToObjectId   -> Return(timeToObjectId(timeValue))
           [] p2 = Seconds      -> Return(NumberToString(EpochSeconds(timeValue), 10))
           [] p2 = Milliseconds -> Return(MillisToString(timeValue))
           [] OTHER             -> format(timeValue, p2)

Render(m, timeRange) ==
    IF ~timeRange.defined THEN Throw(TypeError)   \* timeRange.from of undefined
    ELSE RenderValue(IF m.p1 = TimeFrom THEN timeRange.from ELSE timeRange.to, m.p2)

\* aggregation.replace(customFuncRegex, callback), scanning from position i
\* the regular expression has the g flag: the position of the leftmost match
\* that starts at i or later, Len(s) + 1 when there is none
RECURSIVE NextMatch(_, _)
NextMatch(s, i) ==
    IF i > Len(s) \/ MatchAt(s, i).matched THEN i ELSE NextMatch(s, i + 1)

\* aggregation.replace(customFuncRegex, callback) from position i on: the
\* text before the next match is copied, the match is replaced by what the
\* callback returns, and the scan goes on after the match
RECURSIVE ReplaceFrom(_, _, _)
ReplaceMatch(s, timeRange, m) ==
    ConcatOutcome(Render(m, timeRange), ReplaceFrom(s, m.end, timeRange))

ReplaceNext(s, i, timeRange, j) ==
    IF j > Len(s) THEN Return(SubSeq(s, i, Len(s)))
    ELSE ConcatOutcome(Return(SubSeq(s, i, j - 1)),
                       ReplaceMatch(s, timeRange, MatchAt(s, j)))

ReplaceFrom(s, i, timeRange) == ReplaceNext(s, i, timeRange, NextMatch(s, i))

replaceCustomFunctions(aggregation, timeRange) == ReplaceFrom(aggregation, 1, timeRange)

----------------------------------------------------------------------------
(* getTemplateSrv().replace(text, scopedVars, format): the variable        *)
(* registry of the host.  A reference is ${name}; a name bound in          *)
(* scopedVars is replaced by its value, escaped as a JSON string body when *)
(* the format is 'json'; an unbound reference is left as it is.            *)

IsWordChar(c) == IsLatinLetter(c) \/ c \in {"0","1","2","3","4","5","6","7","8","9","_"}

RECURSIVE WordRun(_, _)
WordRun(s, i) == IF i <= Len(s) /\ IsWordChar(s[i]) THEN 1 + WordRun(s, i + 1) ELSE 0

RECURSIVE JsonEscape(_)
JsonEscape(v) ==
    IF v = EmptyText THEN EmptyText
    ELSE (IF Head(v) \in {"\"", "\\"} THEN <<"\\", Head(v)>> ELSE <<Head(v)>>)
         \o JsonEscape(Tail(v))

Bound(scopedVars, name) == \E b \in scopedVars : b.name = name
ValueOf(scopedVars, name) == (CHOOSE b \in scopedVars : b.name = name).value

RECURSIVE TemplateReplaceFrom(_, _, _, _)
TemplateReplaceFrom(s, i, scopedVars, mode) ==
    IF i > Len(s) THEN EmptyText
    ELSE LET n    == IF HasAt(s, i, <<"$","{">>) THEN WordRun(s, i + 2) ELSE 0
             name == SubSeq(s, i + 2, i + 1 + n)
         IN  IF n > 0 /\ HasAt(s, i + 2 + n, <<"}">>) /\ Bound(scopedVars, name)
             THEN (IF mode = "json" THEN JsonEscape(ValueOf(scopedVars, name))
                                    ELSE ValueOf(scopedVars, name))
                  \o TemplateReplaceFrom(s, i + 3 + n, scopedVars, mode)
             ELSE <<s[i]>> \o TemplateReplaceFrom(s, i + 1, scopedVars, mode)

TemplateReplace(text, scopedVars, mode) == TemplateReplaceFrom(text, 1, scopedVars, mode)

----------------------------------------------------------------------------
(* Objects.  The heap is a sequence of objects (queries and requests); a   *)
(* reference is an index into it.  An object literal allocates an object.  *)

Alloc(h, obj) == [heap |-> Append(h, obj), ref |-> Len(h) + 1]

\* the value of a text field after applyTemplateVariables
Resolve(field, scopedVars, mode) ==
    IF Truthy(field) THEN TemplateReplace(field, scopedVars, mode) ELSE EmptyText

\* the three fields assigned to the query object itself, with no copy made
applyTemplateVariablesInPlace(h, query, scopedVars) ==
    [heap |-> [h EXCEPT
         ![query].database = Resolve(h[query].database, scopedVars, "text"),
         ![query].collection = Resolve(h[query].collection, scopedVars, "text"),
         ![query].aggregation = Resolve(h[query].aggregation, scopedVars, "json")],
     ref |-> query]

\* applyTemplateVariables(query, scopedVars): { ...query, database, collection,
\* aggregation }
applyTemplateVariables(h, query, scopedVars) ==
    Alloc(h, [h[query] EXCEPT
        !.database = IF Truthy(h[query].database)
                     THEN TemplateReplace(h[query].database, scopedVars, "text")
                     ELSE EmptyText,
        !.collection = IF Truthy(h[query].collection)
                       THEN TemplateReplace(h[query].collection, scopedVars, "text")
                       ELSE EmptyText,
        !.aggregation = IF Truthy(h[query].aggregation)
                        THEN TemplateReplace(h[query].aggregation, scopedVars, "json")
                        ELSE EmptyText])

\* the body of request.targets.map(target => ...) for one target: the heap
\* after it and the reference it returns, or the exception it throws
\* processedQuery.aggregation = e, with a the allocation of processedQuery
\* and e the outcome of replaceCustomFunctions
SetAggregation(a, e) ==
    IF e.kind = "throw"
    THEN [heap |-> a.heap, outcome |-> e]
    ELSE [heap |-> [a.heap EXCEPT ![a.ref].aggregation = e.value],
          outcome |-> Return(<<a.ref>>)]

ExpandAggregation(a, timeRange) ==
    SetAggregation(a, replaceCustomFunctions(a.heap[a.ref].aggregation, timeRange))

\* the macros expanded in target.aggregation, not in processedQuery.aggregation
ProcessTargetRaw(h, target, request) ==
    SetAggregation(applyTemplateVariables(h, target, request.scopedVars),
                   replaceCustomFunctions(IF h[target].aggregation = undefined
                                          THEN EmptyText ELSE h[target].aggregation,
                                          request.range))

ProcessTarget(h, target, request) ==
    ExpandAggregation(applyTemplateVariables(h, target, request.scopedVars),
                      request.range)

\* request.targets.map(...) from target i on: the heap after it and the
\* references of the processed targets, or the exception thrown
RECURSIVE MapTargets(_, _, _)
MapCons(one, rest) ==
    [heap |-> rest.heap, outcome |-> ConcatOutcome(one.outcome, rest.outcome)]

MapRest(one, request, i) ==
    IF one.outcome.kind = "throw" THEN one
    ELSE MapCons(one, MapTargets(one.heap, request, i + 1))

MapTargets(h, request, i) ==
    IF i > Len(request.targets) THEN [heap |-> h, outcome |-> Return(<<>>)]
    ELSE MapRest(ProcessTarget(h, request.targets[i], request), request, i)

\* request.targets = processedTargets, with no copy of the request made
ModifiedRequestInPlace(h, request, processedTargets) ==
    [heap |-> [h EXCEPT ![request].targets = processedTargets], ref |-> request]

\* { ...request, targets: processedTargets }
ModifiedRequest(h, request, processedTargets) ==
    Alloc(h, [h[request] EXCEPT !.targets = processedTargets])

Returning(a) == [heap |-> a.heap, outcome |-> Return(a.ref)]

\* query(request) up to the call of super.query: the heap after it and the
\* reference of the request handed to the executor, or the exception thrown
QueryOf(request, m) ==
    IF m.outcome.kind = "throw" THEN m
    ELSE Returning(ModifiedRequest(m.heap, request, m.outcome.value))

query(h, request) == QueryOf(request, MapTargets(h, h[request], 1))

----------------------------------------------------------------------------
(* The executor (super.query of DataSourceWithBackend) and its Observable. *)

ExecutorObservable == [source |-> "executor", operators |-> <<>>]

NoStream == [status |-> "none", emitted |-> <<>>, error |-> EmptyText]

\* return super.query(modifiedRequest): what query() hands back
queryReturn(observable) == observable

EmptyError == <<"EmptyError">>

\* new Error(message): an absent message gives the empty message
NewError(message) == <<"Error">> \o (IF message = undefined THEN EmptyText ELSE message)

\* frameToMetricFindValue(frame): a frame is the sequence of the values of
\* its first field, each of which becomes one { text } entry
frameToMetricFindValue(frame) == [i \in 1..Len(frame) |-> [text |-> frame[i]]]

\* firstValueFrom in place of lastValueFrom: settles on the first emission
firstValueFrom(s) ==
    CASE Len(s.emitted) > 0 -> [state |-> "fulfilled", value |-> s.emitted[1]]
      [] s.status = "completed" /\ Len(s.emitted) = 0 ->
             [state |-> "rejected", value |-> EmptyError]
      [] s.status = "errored" -> [state |-> "rejected", value |-> s.error]
      [] OTHER -> [state |-> "pending", value |-> EmptyText]

\* lastValueFrom(observable): the settlement of the promise it returns after
\* the observable has emitted `emitted` and reached `status`
lastValueFrom(s) ==
    CASE s.status = "completed" /\ Len(s.emitted) > 0 ->
             [state |-> "fulfilled", value |-> s.emitted[Len(s.emitted)]]
      [] s.status = "completed" /\ Len(s.emitted) = 0 ->
             [state |-> "rejected", value |-> EmptyError]
      [] s.status = "errored" -> [state |-> "rejected", value |-> s.error]
      [] OTHER -> [state |-> "pending", value |-> EmptyText]

\* the callback with the frames looked at before the error
ThenCallbackFramesFirst(rsp) ==
    IF rsp.data.defined /\ Len(rsp.data.frames) > 0
    THEN Return(frameToMetricFindValue(rsp.data.frames[1]))
    ELSE IF rsp.error.defined THEN Throw(NewError(rsp.error.message))
    ELSE Return(<<>>)

\* the callback of .then((rsp) => ...)
ThenCallback(rsp) ==
    IF rsp.error.defined THEN Throw(NewError(rsp.error.message))
    ELSE IF rsp.data.defined /\ Len(rsp.data.frames) > 0
    THEN Return(frameToMetricFindValue(rsp.data.frames[1]))
    ELSE Return(<<>>)

Executing == [state |-> "Executing", value |-> <<>>, reason |-> EmptyText]
Idle      == [state |-> "Idle", value |-> <<>>, reason |-> EmptyText]
Succeeded(list) == [state |-> "Succeeded", value |-> list, reason |-> EmptyText]
Failed(reason)  == [state |-> "Failed", value |-> <<>>, reason |-> reason]

\* the promise of metricFindQuery, lastValueFrom(...).then(callback), once
\* the observable is in state s; a settled promise stays as it is
PromiseAfter(p, s) ==
    IF p.state # "Executing" THEN p
    ELSE LET l == lastValueFrom(s)
         IN  CASE l.state = "pending"  -> p
               [] l.state = "rejected" -> Failed(l.value)
               [] OTHER -> LET t == ThenCallback(l.value)
                           IN  IF t.kind = "throw" THEN Failed(t.value)
                               ELSE Succeeded(t.value)

MetricFindRefId == "metricFindQuery"

\* the synthetic target of metricFindQuery
MetricFindTarget(vq) ==
    [refId |-> MetricFindRefId, database |-> vq.database,
     collection |-> vq.collection, queryType |-> "table",
     timestampField |-> EmptyText, timestampFormat |-> EmptyText,
     labelFields |-> <<>>, valueFields |-> <<vq.fieldName>>,
     valueFieldTypes |-> <<vq.fieldType>>, aggregation |-> vq.aggregation,
     autoTimeBound |-> FALSE, autoTimeSort |-> FALSE,
     schemaInference |-> FALSE, schemaInferenceDepth |-> 0]

\* { ...options, targets: [target] }, with t the allocation of target
DataQuery(t, options) == Alloc(t.heap, [options EXCEPT !.targets = <<t.ref>>])

QueryRequest(d) == query(d.heap, d.ref)

\* metricFindQuery up to the call of lastValueFrom: the heap after it and
\* the reference of the request handed to the executor, or the exception
\* this.query threw
metricFindQuery(h, vq, options) ==
    QueryRequest(DataQuery(Alloc(h, MetricFindTarget(vq)), options))

----------------------------------------------------------------------------
(* Inputs. *)

Instants ==
    { [sec |-> 0, ms |-> 0],            \* 1970-01-01T00:00:00.000Z
      [sec |-> 1, ms |-> 500],
      [sec |-> 86400, ms |-> 0],        \* 1970-01-02T00:00:00.000Z
      [sec |-> 268435455, ms |-> 999],  \* 0xfffffff seconds: 7 hex digits
      [sec |-> 268435456, ms |-> 0],    \* 0x10000000 seconds: 8 hex digits
      [sec |-> 1609459200, ms |-> 0] }  \* 2021-01-01T00:00:00.000Z

Range(fromSec, fromMs, toSec, toMs) ==
    [defined |-> TRUE, from |-> [sec |-> fromSec, ms |-> fromMs],
     to |-> [sec |-> toSec, ms |-> toMs]]

\* request.range of a request that has none
NoRange == [defined |-> FALSE, from |-> [sec |-> 0, ms |-> 0],
            to |-> [sec |-> 0, ms |-> 0]]

TimeRanges ==
    { Range(0, 0, 1, 500), Range(-1, 999, 268435455, 999),
      Range(268435456, 0, 1609459200, 0), Range(1609459200, 0, 0, 0) }

QueryRanges == { Range(1, 500, 1609459200, 0) }

CustomPattern == <<"y","y","y","y","-","M","M","-","d","d">>
BadPattern    == <<"n">>

Literal(text) == [macro |-> FALSE, text |-> text, sel |-> undefined, spec |-> undefined]

\* a well-formed macro: {{ lead __sel:date[:spec] trail }}
Macro(sel, lead, spec, trail) ==
    [macro |-> TRUE,
     text |-> Open \o lead \o Marker \o sel \o DateSfx
              \o (IF spec = undefined THEN EmptyText ELSE <<":">> \o spec)
              \o trail \o Close,
     sel |-> sel, spec |-> spec]

Segments ==
    { Literal(<<"{", "\"", "a">>),
      Literal(Open \o Marker \o TimeFrom \o Close),            \* no :date
      Literal(Open \o Marker \o TimeTo \o DateSfx \o <<":">> \o Close),
      Macro(TimeFrom, EmptyText, undefined, EmptyText),
      Macro(TimeTo, <<" ">>, undefined, <<" ">>),
      Macro(TimeTo, EmptyText, Iso, EmptyText),
      Macro(TimeFrom, EmptyText, ToObjectId, EmptyText),
      Macro(TimeTo, EmptyText, ToObjectId, EmptyText),
      Macro(TimeFrom, EmptyText, Seconds, EmptyText),
      Macro(TimeTo, <<"\t", " ">>, Seconds, <<"\n">>),
      Macro(TimeFrom, EmptyText, Milliseconds, EmptyText),
      Macro(TimeTo, EmptyText, CustomPattern, EmptyText),
      Macro(TimeFrom, EmptyText, BadPattern, EmptyText) }

MaxSegments == 2

SegmentLists == UNION { [1..n -> Segments] : n \in 0..MaxSegments }

RECURSIVE Join(_)
Join(segs) == IF segs = <<>> THEN EmptyText ELSE Head(segs).text \o Join(Tail(segs))

Binding(name, value) == [name |-> name, value |-> value]

ScopedVarsSets ==
    { {},
      { Binding(<<"f">>, Seconds), Binding(<<"v">>, <<"x">>),
        Binding(<<"q">>, <<"a","\"","\\">>) },
      { Binding(<<"f">>, BadPattern),
        Binding(<<"q">>, Macro(TimeTo, EmptyText, Seconds, EmptyText).text) } }

Ref(name) == <<"$","{">> \o name \o <<"}">>

QueryObject(refId, database, collection, aggregation) ==
    [refId |-> refId, database |-> database, collection |-> collection,
     queryType |-> "timeseries", timestampField |-> <<"t","s">>,
     timestampFormat |-> EmptyText, labelFields |-> <<>>,
     valueFields |-> <<<<"n">>>>, valueFieldTypes |-> <<<<"i","n","t">>>>,
     aggregation |-> aggregation, autoTimeBound |-> TRUE, autoTimeSort |-> FALSE,
     schemaInference |-> TRUE, schemaInferenceDepth |-> 1]

\* the query objects the callers hold before any call
InitialHeap ==
    << QueryObject("A", <<"d">> \o Ref(<<"v">>), Ref(<<"q">>),
                   Open \o Marker \o TimeFrom \o DateSfx \o <<":">> \o Ref(<<"f">>) \o Close),
       QueryObject("B", undefined, EmptyText, undefined),
       QueryObject("C", Macro(TimeFrom, EmptyText, undefined, EmptyText).text,
                   Macro(TimeTo, EmptyText, Seconds, EmptyText).text,
                   <<"\"">> \o Ref(<<"q">>) \o <<"\"">>
                       \o Macro(TimeTo, <<" ">>, ToObjectId, <<" ">>).text),
       QueryObject("D", <<"d">>, <<"c">>,
                   Macro(TimeFrom, EmptyText, undefined, EmptyText).text \o <<",">>
                       \o Macro(TimeTo, EmptyText, Milliseconds, EmptyText).text) >>

\* the targets of a request are distinct query objects
TargetLists ==
    { ts \in UNION { [1..n -> 1..Len(InitialHeap)] : n \in 0..MaxTargets } :
        \A i, j \in DOMAIN ts : ts[i] = ts[j] => i = j }

\* the scoped variables of the requests: none, and f, v and q bound
RequestScopedVars == { sv \in ScopedVarsSets : Cardinality(sv) # 2 }

Requests ==
    { [targets |-> ts, range |-> r, scopedVars |-> sv, requestId |-> <<"Q","1">>] :
        ts \in TargetLists, r \in QueryRanges, sv \in RequestScopedVars }

VariableQueries ==
    { [database |-> <<"d">>, collection |-> Ref(<<"v">>),
       aggregation |-> <<"[","]">>, fieldName |-> <<"n">>, fieldType |-> <<"s">>],
      [database |-> undefined, collection |-> undefined, aggregation |-> undefined,
       fieldName |-> <<"n">>, fieldType |-> <<"s">>],
      [database |-> <<"d">>, collection |-> <<"c">>,
       aggregation |-> Macro(TimeFrom, EmptyText, Seconds, EmptyText).text,
       fieldName |-> <<"m">>, fieldType |-> <<"i">>],
      [database |-> <<"d">>, collection |-> <<"c">>,
       aggregation |-> Macro(TimeTo, EmptyText, BadPattern, EmptyText).text,
       fieldName |-> <<"m">>, fieldType |-> <<"i">>] }

\* the options of metricFindQuery; the first stands for no options at all
OptionsSet ==
    { [targets |-> <<>>, range |-> NoRange, scopedVars |-> {}, requestId |-> undefined],
      [targets |-> <<1, 2>>, range |-> Range(1, 500, 1609459200, 0),
       scopedVars |-> { Binding(<<"v">>, <<"x">>) }, requestId |-> <<"Q","2">>] }

Response(errorDefined, message, dataDefined, frames) ==
    [error |-> [defined |-> errorDefined, message |-> message],
     data |-> [defined |-> dataDefined, frames |-> frames]]

Responses ==
    { Response(TRUE, <<"E","1">>, TRUE, << <<"x","y">> >>),
      Response(TRUE, undefined, FALSE, <<>>),
      Response(FALSE, undefined, TRUE, <<>>),
      Response(FALSE, undefined, FALSE, <<>>),
      Response(FALSE, undefined, TRUE, << <<"z">>, <<"x","y">> >>) }

StreamErrors == { <<"NetworkError">> }

----------------------------------------------------------------------------
(* The state machine: one call of a public method of DataSource, then the  *)
(* executor's emissions.                                                   *)

NoCall == [op |-> "none"]

Init ==
    /\ heap = InitialHeap
    /\ call = NoCall
    /\ executorCalls = <<>>
    /\ stream = NoStream
    /\ received = <<>>
    /\ promise = Idle

CallTimeToObjectId(time) ==
    /\ call.op = "none"
    /\ call' = [op |-> "timeToObjectId", time |-> time,
                outcome |-> Return(timeToObjectId(time))]
    /\ UNCHANGED <<heap, executorCalls, stream, received, promise>>

CallReplaceCustomFunctions(segs, timeRange) ==
    /\ call.op = "none"
    /\ call' = [op |-> "replaceCustomFunctions", segments |-> segs,
                aggregation |-> Join(segs), timeRange |-> timeRange,
                outcome |-> replaceCustomFunctions(Join(segs), timeRange)]
    /\ UNCHANGED <<heap, executorCalls, stream, received, promise>>

\* the effect of a call whose body allocated as a says
Allocated(a, op, q, scopedVars) ==
    /\ heap' = a.heap
    /\ call' = [op |-> op, query |-> q, scopedVars |-> scopedVars,
                outcome |-> Return(a.ref)]

CallApplyTemplateVariables(q, scopedVars) ==
    /\ call.op = "none"
    /\ Allocated(applyTemplateVariables(heap, q, scopedVars),
                 "applyTemplateVariables", q, scopedVars)
    /\ UNCHANGED <<executorCalls, stream, received, promise>>

\* super.query(modifiedRequest) when q returned it, nothing when q threw
InvokeExecutor(q) ==
    /\ heap' = q.heap
    /\ IF q.outcome.kind = "throw"
       THEN UNCHANGED <<executorCalls, stream>>
       ELSE /\ executorCalls' = Append(executorCalls, q.outcome.value)
            /\ stream' = [NoStream EXCEPT !.status = "open"]

QueryOutcome(q) ==
    IF q.outcome.kind = "throw" THEN q.outcome
    ELSE Return(queryReturn(ExecutorObservable))

\* the effect of query(request), with q its evaluation up to super.query
QueryCalled(request, q) ==
    /\ InvokeExecutor(q)
    /\ call' = [op |-> "query", request |-> request, requestRef |-> Len(heap) + 1,
                outcome |-> QueryOutcome(q)]

\* the caller's request object is on the heap when query is called
CallQuery(request) ==
    /\ call.op = "none"
    /\ QueryCalled(request, query(Append(heap, request), Len(heap) + 1))
    /\ UNCHANGED <<received, promise>>

\* an async function: an exception thrown in its body rejects its promise
MetricFindQueryCalled(q) ==
    /\ InvokeExecutor(q)
    /\ promise' = IF q.outcome.kind = "throw" THEN Failed(q.outcome.value)
                  ELSE Executing

CallMetricFindQuery(vq, options) ==
    /\ call.op = "none"
    /\ call' = [op |-> "metricFindQuery", query |-> vq, options |-> options,
                outcome |-> Return(<<"promise">>)]
    /\ MetricFindQueryCalled(metricFindQuery(heap, vq, options))
    /\ UNCHANGED received

\* the stream moves to s: the subscriber of query()'s observable sees the
\* new emission, the promise of metricFindQuery settles as lastValueFrom says
StreamStep(s) ==
    /\ stream' = s
    /\ received' = IF call.op = "query" /\ call.outcome.value = ExecutorObservable
                      /\ Len(s.emitted) > Len(stream.emitted)
                   THEN Append(received, s.emitted[Len(s.emitted)])
                   ELSE received
    /\ promise' = IF call.op = "metricFindQuery" THEN PromiseAfter(promise, s)
                  ELSE promise
    /\ UNCHANGED <<heap, call, executorCalls>>

ExecutorEmit(rsp) ==
    /\ stream.status = "open"
    /\ Len(stream.emitted) < MaxEmissions
    /\ StreamStep([stream EXCEPT !.emitted = Append(@, rsp)])

ExecutorComplete ==
    /\ stream.status = "open"
    /\ StreamStep([stream EXCEPT !.status = "completed"])

ExecutorError(e) ==
    /\ stream.status = "open"
    /\ StreamStep([stream EXCEPT !.status = "errored", !.error = e])

\* a caller calls one public method of the DataSource, or the executor
\* drives the stream it returned
Next ==
    \/ /\ call.op = "none"
       /\ \E time \in Instants : CallTimeToObjectId(time)
    \/ /\ call.op = "none"
       /\ \E segs \in SegmentLists, timeRange \in TimeRanges :
             CallReplaceCustomFunctions(segs, timeRange)
    \/ /\ call.op = "none"
       /\ \E q \in 1..Len(InitialHeap), scopedVars \in ScopedVarsSets :
             CallApplyTemplateVariables(q, scopedVars)
    \/ /\ call.op = "none"
       /\ \E request \in Requests : CallQuery(request)
    \/ /\ call.op = "none"
       /\ \E vq \in VariableQueries, options \in OptionsSet :
             CallMetricFindQuery(vq, options)
    \/ /\ stream.status = "open"
       /\ \E rsp \in Responses : ExecutorEmit(rsp)
    \/ ExecutorComplete
    \/ /\ stream.status = "open"
       /\ \E e \in StreamErrors : ExecutorError(e)

Spec == Init /\ [][Next]_vars

----------------------------------------------------------------------------
(* Properties of metricFindQuery. *)

Terminal == {"Succeeded", "Failed"}

\* the settlement the .then callback gives for response rsp
SettledFrom(rsp) ==
    IF ThenCallback(rsp).kind = "throw" THEN Failed(ThenCallback(rsp).value)
    ELSE Succeeded(ThenCallback(rsp).value)

\* C1, as the spec states it: metricFindQuery awaits only the first response;
\* once the executor has emitted a response the call has resolved or failed
\* from that first response, and later emissions do not change the result.
C1_ResolvesOnFirstEmission ==
    (call.op = "metricFindQuery" /\ Len(stream.emitted) >= 1)
        => promise = SettledFrom(stream.emitted[1])

\* C1, amended: metricFindQuery awaits the completion of the stream.  While
\* the stream is open the call stays pending, whatever has been emitted; on
\* completion it resolves or fails from the last response emitted; when the
\* stream completes without a response it fails with EmptyError, and when
\* the stream fails it fails with the stream's error.
C1_ResolvesOnCompletionFromLast ==
    (call.op = "metricFindQuery" /\ stream.status # "none") =>
        /\ stream.status = "open" => promise = Executing
        /\ (stream.status = "completed" /\ Len(stream.emitted) > 0)
              => promise = SettledFrom(stream.emitted[Len(stream.emitted)])
        /\ (stream.status = "completed" /\ Len(stream.emitted) = 0)
              => promise = Failed(EmptyError)
        /\ stream.status = "errored" => promise = Failed(stream.error)

\* two emissions that settle differently, and the call settled from the last
C1_Witness ==
    /\ call.op = "metricFindQuery"
    /\ stream.status = "completed"
    /\ Len(stream.emitted) = 2
    /\ SettledFrom(stream.emitted[1]) # SettledFrom(stream.emitted[2])
    /\ promise = SettledFrom(stream.emitted[2])

\* C2: the response the call settles from decides the result: an error
\* descriptor makes the call fail with the descriptor's message, whether or
\* not frames are present; without an error and without frames the call
\* succeeds with the empty list; without an error and with frames it
\* succeeds with the converter's output for the first frame.
C2_ResultFromResponse ==
    (call.op = "metricFindQuery" /\ stream.status = "completed"
        /\ Len(stream.emitted) > 0) =>
        LET rsp == stream.emitted[Len(stream.emitted)]
        IN  /\ rsp.error.defined =>
                 /\ promise.state = "Failed"
                 /\ promise.value = <<>>
                 /\ rsp.error.message # undefined
                       => promise.reason = <<"Error">> \o rsp.error.message
            /\ (~rsp.error.defined /\ (~rsp.data.defined \/ rsp.data.frames = <<>>))
                 => (promise.state = "Succeeded" /\ promise.value = <<>>)
            /\ (~rsp.error.defined /\ rsp.data.defined /\ rsp.data.frames # <<>>)
                 => /\ promise.state = "Succeeded"
                    /\ Len(promise.value) = Len(rsp.data.frames[1])
                    /\ \A i \in 1..Len(promise.value) :
                          promise.value[i] = [text |-> rsp.data.frames[1][i]]

\* a response with both an error and frames, and the call failed
C2_Witness ==
    /\ call.op = "metricFindQuery"
    /\ stream.status = "completed"
    /\ Len(stream.emitted) > 0
    /\ stream.emitted[Len(stream.emitted)].error.defined
    /\ stream.emitted[Len(stream.emitted)].data.defined
    /\ stream.emitted[Len(stream.emitted)].data.frames # <<>>
    /\ promise.state = "Failed"
    /\ promise.reason = <<"Error", "E", "1">>

\* C9: every metricFindQuery call builds one synthetic target with refId
\* metricFindQuery, which replaces the targets of the options, hands it to
\* the executor exactly once, and goes Idle -> Executing -> Succeeded or
\* Failed with no other state and no second run of the executor.
C9_OneTargetOneRun ==
    call.op = "metricFindQuery" =>
        /\ promise.state \in {"Executing"} \cup Terminal
        /\ Len(executorCalls) = 1
        /\ Len(heap[executorCalls[1]].targets) = 1
        /\ heap[heap[executorCalls[1]].targets[1]].refId = MetricFindRefId

----------------------------------------------------------------------------
(* Properties of timeToObjectId and replaceCustomFunctions. *)

HexDigits == {"0","1","2","3","4","5","6","7","8","9","a","b","c","d","e","f"}

\* v is the 24-character identifier of time: 8 hex digits of the epoch
\* seconds, zero-padded on the left, then 16 zeros
IsObjectIdOf(v, time) ==
    /\ Len(v) = 24
    /\ \A i \in 1..Len(v) : v[i] \in HexDigits
    /\ SubSeq(v, 1, 8) = PadStart(NumberToString(EpochSeconds(time), 16), 8)
    /\ SubSeq(v, 9, 24) = Zeros16

\* C3: for every instant the toObjectId rendering is 24 lowercase hex
\* characters: the epoch seconds as 8 hex digits, zero-padded on the left,
\* followed by 16 zeros, both when timeToObjectId is called and when a
\* toObjectId macro is expanded.
C3_ObjectIdIs24Hex ==
    /\ call.op = "timeToObjectId" => IsObjectIdOf(call.outcome.value, call.time)
    /\ (call.op = "replaceCustomFunctions" /\ Len(call.segments) = 1
           /\ call.segments[1].macro /\ call.segments[1].spec = ToObjectId)
        => /\ call.outcome.kind = "return"
           /\ IsObjectIdOf(call.outcome.value,
                           IF call.segments[1].sel = TimeFrom
                           THEN call.timeRange.from ELSE call.timeRange.to)

\* C7: replaceCustomFunctions returns a string and never raises, whatever
\* the format specifier of a well-formed macro.
C7_ExpandNeverThrows ==
    call.op = "replaceCustomFunctions" => call.outcome.kind = "return"

\* what the spec's table gives for one segment of the text
Rendering(seg, timeRange) ==
    IF seg.macro
    THEN RenderValue(IF seg.sel = TimeFrom THEN timeRange.from ELSE timeRange.to,
                     seg.spec).value
    ELSE seg.text

RECURSIVE Expected(_, _)
Expected(segs, timeRange) ==
    IF segs = <<>> THEN EmptyText
    ELSE Rendering(Head(segs), timeRange) \o Expected(Tail(segs), timeRange)

\* C8: one call replaces every well-formed macro of the text, each by the
\* rendering of the instant it selects, and keeps every other character,
\* malformed macros included, as it is and in order.
C8_EveryMacroReplaced ==
    call.op = "replaceCustomFunctions"
        => call.outcome = Return(Expected(call.segments, call.timeRange))

\* What does hold of replaceCustomFunctions: a call that returns has replaced
\* every well-formed macro and kept the rest, and a call throws only when a
\* specifier is passed to format and format rejects it.
ReplacedWhenReturned ==
    call.op = "replaceCustomFunctions" =>
        IF \E i \in 1..Len(call.segments) :
              call.segments[i].macro /\ call.segments[i].spec = BadPattern
        THEN call.outcome = Throw(RangeError)
        ELSE call.outcome = Return(Expected(call.segments, call.timeRange))

----------------------------------------------------------------------------
(* Properties of applyTemplateVariables and query. *)

\* the fields of a query object other than database, collection, aggregation
SameOtherFields(a, b) ==
    [a EXCEPT !.database = b.database, !.collection = b.collection,
              !.aggregation = b.aggregation] = b

\* C6: applyTemplateVariables leaves its input query as it was and returns
\* another object, equal to the input in every field but database,
\* collection and aggregation, which hold the registry's replacement of the
\* input's field (plain for database and collection, JSON for aggregation),
\* or the empty string when the input's field is absent or empty.
C6_ResolveCopies ==
    call.op = "applyTemplateVariables" =>
        /\ SubSeq(heap, 1, Len(InitialHeap)) = InitialHeap
        /\ call.outcome.value # call.query
        /\ SameOtherFields(heap[call.outcome.value], InitialHeap[call.query])
        /\ heap[call.outcome.value].database
              = Resolve(InitialHeap[call.query].database, call.scopedVars, "text")
        /\ heap[call.outcome.value].collection
              = Resolve(InitialHeap[call.query].collection, call.scopedVars, "text")
        /\ heap[call.outcome.value].aggregation
              = Resolve(InitialHeap[call.query].aggregation, call.scopedVars, "json")

\* query A resolved with q bound to a"\ : the collection holds the value as
\* it is, the other fields are those of A, and A is unchanged
C6_Witness ==
    /\ call.op = "applyTemplateVariables"
    /\ call.query = 1
    /\ heap[1] = InitialHeap[1]
    /\ heap[call.outcome.value].collection = <<"a", "\"", "\\">>
    /\ heap[call.outcome.value].database = <<"d", "x">>
    /\ heap[call.outcome.value].refId = "A"

\* C4: the request handed to the executor has as many targets as the
\* incoming request, in the same order, each equal to the incoming target in
\* refId and in every field but database, collection and aggregation, and
\* equals the incoming request in every field but targets; the incoming
\* request and its targets are left as they were.
C4_RequestRewritten ==
    call.op = "query" =>
        /\ SubSeq(heap, 1, Len(InitialHeap)) = InitialHeap
        /\ heap[call.requestRef] = call.request
        /\ executorCalls # <<>> =>
              /\ executorCalls[1] # call.requestRef
              /\ [heap[executorCalls[1]] EXCEPT !.targets = call.request.targets]
                    = call.request
              /\ Len(heap[executorCalls[1]].targets) = Len(call.request.targets)
              /\ \A i \in 1..Len(call.request.targets) :
                    /\ heap[heap[executorCalls[1]].targets[i]].refId
                          = InitialHeap[call.request.targets[i]].refId
                    /\ SameOtherFields(heap[heap[executorCalls[1]].targets[i]],
                                       InitialHeap[call.request.targets[i]])

\* a request with two targets of different refId, rewritten and handed over
C4_Witness ==
    /\ call.op = "query"
    /\ Len(executorCalls) = 1
    /\ Len(call.request.targets) = 2
    /\ heap[heap[executorCalls[1]].targets[1]].refId = "D"
    /\ heap[heap[executorCalls[1]].targets[2]].refId = "C"
    /\ heap[heap[executorCalls[1]].targets[1]] # InitialHeap[4]

\* C5: query invokes the executor exactly once with the rewritten request
\* and returns the executor's stream itself, so that the subscriber has
\* received exactly the responses the executor emitted, in order.
C5_ExecutorOnceStreamUntouched ==
    call.op = "query" =>
        /\ Len(executorCalls) = 1
        /\ call.outcome = Return(ExecutorObservable)
        /\ received = stream.emitted

\* What does hold of query: a call that returns has invoked the executor
\* once and its subscriber receives what the executor emits; a call that
\* throws has not invoked the executor.
ExecutorOnceWhenReturned ==
    call.op = "query" =>
        IF call.outcome.kind = "return"
        THEN /\ Len(executorCalls) = 1
             /\ call.outcome.value = ExecutorObservable
             /\ received = stream.emitted
        ELSE executorCalls = <<>> /\ stream = NoStream /\ received = <<>>

\* C10: in the request handed to the executor, the aggregation of every
\* target is the expansion, under the request's time range, of the resolved
\* aggregation of the incoming target (the empty string for an absent one),
\* and its database and collection are resolved and not expanded.
C10_ResolveThenExpand ==
    (call.op = "query" /\ executorCalls # <<>>) =>
        \A i \in 1..Len(call.request.targets) :
            /\ Return(heap[heap[executorCalls[1]].targets[i]].aggregation)
                  = replaceCustomFunctions(
                        Resolve(InitialHeap[call.request.targets[i]].aggregation,
                                call.request.scopedVars, "json"),
                        call.request.range)
            /\ heap[heap[executorCalls[1]].targets[i]].database
                  = Resolve(InitialHeap[call.request.targets[i]].database,
                            call.request.scopedVars, "text")
            /\ heap[heap[executorCalls[1]].targets[i]].collection
                  = Resolve(InitialHeap[call.request.targets[i]].collection,
                            call.request.scopedVars, "text")

\* targets A and C with f bound to seconds: the macro that the substitution
\* completes in A's aggregation is expanded to the epoch seconds of from,
\* the macro in C's database is kept
C10_Witness ==
    /\ call.op = "query"
    /\ Len(executorCalls) = 1
    /\ call.request.targets = <<1, 3>>
    /\ heap[heap[executorCalls[1]].targets[1]].aggregation = <<"1">>
    /\ heap[heap[executorCalls[1]].targets[2]].database
          = Macro(TimeFrom, EmptyText, undefined, EmptyText).text

====
